---- MODULE Spec2Model ----
(***************************************************************************)
(* CodeBeam error monitor (src/src/index.js): the log monitor loop and the *)
(* clipboard monitor loop of class ErrorMonitor.                           *)
(*                                                                         *)
(* Text is a sequence of tokens.  A token is one character ("\n", " ",     *)
(* "/") or an atom standing for a run of ordinary characters ("E" for a    *)
(* fragment such as `Error:', "T" for `TypeError:', "#auto-ai", "append"). *)
(* Splitting, slicing, trimming, regular-expression tests and path joins   *)
(* are computed on these sequences the way the JavaScript library computes *)
(* them on strings.                                                        *)
(***************************************************************************)
EXTENDS Integers, Sequences, FiniteSets, TLC

VARIABLES
    config,               \* this.config (immutable after start)
    lastIndex,            \* errorPatterns[i].pattern.lastIndex, per rule
    buffer,               \* this.buffer
    lastContent,          \* this.lastContent
    lastClipboardContent, \* this.lastClipboardContent
    isProcessing,         \* this.isProcessing
    errorStats,           \* this.errorStats, entries in Map insertion order
    watcher,              \* a watch subscription is active (this.watcher)
    polling,              \* the polling interval timer is active
    clipTimer,            \* the clipboard interval timer is active
    cycles,               \* invocations of processLogFile, by slot
    ticks,                \* invocations of the clipboard timer callback, by slot
    pendingEvents,        \* fs.watch events queued for the watch callback
    pollDue,              \* the polling timer has elapsed, callback queued
    clipDue,              \* the clipboard timer has elapsed, callback queued
    fileContent,          \* the log file on disk (Unreadable when it cannot be read)
    now,                  \* the wall clock read by new Date()
    clipboard,            \* the system clipboard: [text, gen], gen numbers the placements
    files,                \* the file system: resolved path -> content
    dirs,                 \* directories created by mkdir
    lastNotification,     \* title of the most recent desktop notification
    execs,                \* per clipboard placement, how often its directive reached disk
    written,              \* history: per resolved path, the directives written to it, in order
    lastEvent             \* history: what the log loop did last (a trigger's or a cycle's outcome)

vars == <<config, lastIndex, buffer, lastContent, lastClipboardContent, isProcessing,
          errorStats, watcher, polling, clipTimer, cycles, ticks, pendingEvents,
          pollDue, clipDue, fileContent, now, clipboard, files, dirs,
          lastNotification, execs, written, lastEvent>>

(***************************************************************************)
(* Bounds of the model.                                                    *)
(***************************************************************************)
MaxLogLen == 2        \* tokens in the log file
MaxTime == 3          \* clock values 0..MaxTime; every log write advances the clock
MaxBufferCap == 2     \* config.maxBufferLines ranges over 1..MaxBufferCap
MaxLedgerCap == 1     \* config.maxErrorsPerType ranges over 1..MaxLedgerCap
contextBefore == 1    \* config.contextBefore, scaled to the model's short buffers
contextAfter == 1     \* config.contextAfter, scaled likewise
MaxCycles == 2        \* slots for concurrently running processLogFile invocations
MaxPending == 1       \* queued, undelivered watch events
MaxTicks == 2         \* slots for concurrently running clipboard callbacks
MaxRecordCap == 2     \* maxErrorsPerType ranges over 1..MaxRecordCap where matches are recorded directly
MaxCount == 2         \* occurrences recorded per ledger key, there
MaxPlacements == 1    \* clipboard placements by the user
MaxDirectives == 2    \* clipboard placements where directives for one path follow one another
MaxContextLen == 2    \* tokens in an error context where prompts are formatted directly

NL == "\n"

\* A value that is a string or null: readLogFile's result.
Null == [isNull |-> TRUE, text |-> <<>>]
Str(t) == [isNull |-> FALSE, text |-> t]

\* JavaScript falsiness of such a value: null and the empty string.
Falsy(v) == v.isNull \/ v.text = <<>>

\* The log file on disk.
Unreadable == [readable |-> FALSE, text |-> <<>>]
File(t) == [readable |-> TRUE, text |-> t]

Max(a, b) == IF a > b THEN a ELSE b
Min(a, b) == IF a < b THEN a ELSE b

(***************************************************************************)
(* String and array primitives.                                            *)
(***************************************************************************)
RECURSIVE SplitAcc(_, _, _)
SplitAcc(s, sep, cur) ==
    IF s = <<>> THEN <<cur>>
    ELSE IF Head(s) = sep THEN <<cur>> \o SplitAcc(Tail(s), sep, <<>>)
    ELSE SplitAcc(Tail(s), sep, Append(cur, Head(s)))

\* String.prototype.split(sep): "" splits into one empty piece.
split(s, sep) == SplitAcc(s, sep, <<>>)

\* Array.prototype.slice(start): a negative start counts from the end, and
\* -0 is 0.
slice(a, start) ==
    LET k == IF start < 0 THEN Max(Len(a) + start, 0) ELSE Min(start, Len(a))
    IN  SubSeq(a, k + 1, Len(a))

\* Array.prototype.slice(start, end) for 0 <= start.
slice2(a, start, end) == SubSeq(a, start + 1, Min(end, Len(a)))

RECURSIVE join(_, _)
\* Array.prototype.join(sep)
join(a, sep) ==
    IF a = <<>> THEN <<>>
    ELSE IF Len(a) = 1 THEN a[1]
    ELSE a[1] \o <<sep>> \o join(Tail(a), sep)

(***************************************************************************)
(* Pattern rules.  A rule's regular expression is given by the set of      *)
(* tokens its source matches; global is the g flag, with which test()      *)
(* starts at lastIndex and leaves the end of the match there.              *)
(***************************************************************************)
\* CONFIG.errorPatterns: a `TypeError:' line matches the javascript rule and,
\* further down the list, the general rule (`Error:').
DefaultPatterns ==
    << [tokens |-> {"T"}, global |-> FALSE, type |-> "javascript", severity |-> "critical"],
       [tokens |-> {"T", "E"}, global |-> FALSE, type |-> "general", severity |-> "high"] >>

\* Rule lists loadCustomConfigurations accepts from a patterns file:
\* new RegExp(pattern.pattern, pattern.flags || 'i').
CustomPatterns ==
    { << [tokens |-> {"E"}, global |-> TRUE, type |-> "custom", severity |-> "low"],
         [tokens |-> {"T"}, global |-> FALSE, type |-> "other", severity |-> "high"] >> }

RECURSIVE FirstMatchFrom(_, _, _)
\* 0-based index of the first token of line at or after start that the
\* expression matches, -1 when there is none.
FirstMatchFrom(tokens, line, start) ==
    IF start >= Len(line) THEN -1
    ELSE IF line[start + 1] \in tokens THEN start
    ELSE FirstMatchFrom(tokens, line, start + 1)

\* RegExp.prototype.test: the result and the rule's lastIndex afterwards.
test(rule, li, line) ==
    LET start == IF rule.global THEN li ELSE 0
        at == IF start > Len(line) THEN -1 ELSE FirstMatchFrom(rule.tokens, line, start)
    IN  [ok |-> at >= 0,
         li |-> IF ~rule.global THEN li ELSE IF at >= 0 THEN at + 1 ELSE 0]

(***************************************************************************)
(* updateBuffer, findFirstError, getErrorContext                           *)
(***************************************************************************)
\* As if the leading lines were kept: lines.slice(0, maxBufferLines).
updateBufferHead(content, maxBufferLines) ==
    slice2(split(content, NL), 0, maxBufferLines)

updateBuffer(content, maxBufferLines) ==
    slice(split(content, NL), 0 - maxBufferLines)

\* findFirstError's null result.
NoError == [found |-> FALSE, line |-> <<>>, index |-> 0, type |-> "", severity |-> ""]

RECURSIVE Scan(_, _, _, _, _)
\* The two nested loops of findFirstError at line i (1-based), rule j, with
\* the rules' lastIndex values li.
Scan(buf, rules, li, i, j) ==
    IF i > Len(buf) THEN [info |-> NoError, li |-> li]
    ELSE IF j > Len(rules) THEN Scan(buf, rules, li, i + 1, 1)
    ELSE LET r == test(rules[j], li[j], buf[i])
             li2 == [li EXCEPT ![j] = r.li]
         IN  IF r.ok
             THEN [info |-> [found |-> TRUE, line |-> buf[i], index |-> i - 1,
                             type |-> rules[j].type, severity |-> rules[j].severity],
                   li |-> li2]
             ELSE Scan(buf, rules, li2, i, j + 1)

findFirstError(buf, rules, li) == Scan(buf, rules, li, 1, 1)

getErrorContext(buf, errorIndex, before, after) ==
    LET start == Max(0, errorIndex - before)
        end == Min(Len(buf), errorIndex + after + 1)
    IN  join(slice2(buf, start, end), NL)

\* formatErrorPrompt, built-in template: the fixed text around the four fields.
\* Date.prototype.toISOString, as one token per clock value.
toISOString(t) == <<"t0", "t1", "t2", "t3", "t4", "t5", "t6", "t7">>[t + 1]

\* The placeholders of a custom prompt template, one token each.
Placeholders == {"${type}", "${severity}", "${timestamp}", "${context}"}

RECURSIVE Expand(_, _, _, _)
\* The replacement string of String.prototype.replace, expanded: $$ is a
\* dollar sign, $& the matched text, $` the text before the match, $' the
\* text after it; any other $ stands for itself.
Expand(replacement, matched, before, after) ==
    IF replacement = <<>> THEN <<>>
    ELSE IF Head(replacement) = "$" /\ Len(replacement) >= 2
                /\ replacement[2] \in {"$", "&", "`", "'"}
    THEN (CASE replacement[2] = "$" -> <<"$">>
            [] replacement[2] = "&" -> matched
            [] replacement[2] = "`" -> before
            [] replacement[2] = "'" -> after)
         \o Expand(SubSeq(replacement, 3, Len(replacement)), matched, before, after)
    ELSE <<Head(replacement)>> \o Expand(Tail(replacement), matched, before, after)

\* String.prototype.replace(pattern, replacement) with a string pattern: the
\* first occurrence only.
replace(text, pattern, replacement) ==
    IF \A i \in 1..Len(text) : text[i] # pattern THEN text
    ELSE LET i == CHOOSE i \in 1..Len(text) :
                      text[i] = pattern /\ \A k \in 1..(i - 1) : text[k] # pattern
             before == SubSeq(text, 1, i - 1)
             after == SubSeq(text, i + 1, Len(text))
         IN  before \o Expand(replacement, <<pattern>>, before, after) \o after

\* formatErrorPrompt: the custom template when one is loaded, else the
\* built-in template (the fixed text around the four fields).
formatErrorPrompt(error) ==
    IF config.customPromptTemplate # <<>>
    THEN replace(replace(replace(replace(config.customPromptTemplate,
                                         "${type}", <<error.type>>),
                                 "${severity}", <<error.severity>>),
                         "${timestamp}", <<error.timestamp>>),
                 "${context}", error.context)
    ELSE <<NL, "#ERROR_ANALYSIS_REQUEST", NL, error.type, error.severity, error.timestamp, NL>>
             \o error.context \o <<NL, "Please provide:">>

(***************************************************************************)
(* updateErrorStats                                                        *)
(***************************************************************************)
statsKey(errorInfo) == <<errorInfo.type, "-">> \o errorInfo.line

KeyIndex(stats, key) ==
    IF \E i \in 1..Len(stats) : stats[i].key = key
    THEN CHOOSE i \in 1..Len(stats) : stats[i].key = key
    ELSE 0

\* As if the cleanup deleted the least recently updated key (an LRU policy).
deleteLeastRecentlyUsed(stats) ==
    LET i == CHOOSE i \in 1..Len(stats) :
                 \A j \in 1..Len(stats) : stats[i].lastSeen <= stats[j].lastSeen
    IN  SubSeq(stats, 1, i - 1) \o SubSeq(stats, i + 1, Len(stats))

\* Array.from(this.errorStats.keys())[0] deleted: the first key in insertion order.
deleteOldest(stats) == Tail(stats)

cleanup(stats, maxErrorsPerType) ==
    IF Len(stats) > maxErrorsPerType THEN deleteOldest(stats) ELSE stats

\* As if the has(key) test were missing and every match set a fresh entry.
updateErrorStatsReset(stats, errorInfo, maxErrorsPerType, date) ==
    LET key == statsKey(errorInfo)
        i == KeyIndex(stats, key)
        fresh == [key |-> key, count |-> 1, firstSeen |-> date, lastSeen |-> date,
                  type |-> errorInfo.type, severity |-> errorInfo.severity]
    IN  cleanup(IF i = 0 THEN Append(stats, fresh) ELSE [stats EXCEPT ![i] = fresh],
                maxErrorsPerType)

updateErrorStats(stats, errorInfo, maxErrorsPerType, date) ==
    LET key == statsKey(errorInfo)
        i == KeyIndex(stats, key)
        recorded ==
            IF i = 0
            THEN Append(stats, [key |-> key, count |-> 1, firstSeen |-> date,
                                lastSeen |-> date, type |-> errorInfo.type,
                                severity |-> errorInfo.severity])
            ELSE [stats EXCEPT ![i].count = @ + 1, ![i].lastSeen = date]
    IN  cleanup(recorded, maxErrorsPerType)

(***************************************************************************)
(* generateErrorReport                                                     *)
(***************************************************************************)
RECURSIVE SumCounts(_)
SumCounts(entries) ==
    IF entries = <<>> THEN 0 ELSE Head(entries).count + SumCounts(Tail(entries))

RECURSIVE SumCountsBy(_, _, _)
\* The counts of the entries whose field (type or severity) has this value,
\* added up.
SumCountsBy(entries, field, value) ==
    IF entries = <<>> THEN 0
    ELSE (IF Head(entries)[field] = value THEN Head(entries).count ELSE 0)
         + SumCountsBy(Tail(entries), field, value)

RECURSIVE InsertByCount(_, _)
\* e placed behind every entry whose count is not smaller.
InsertByCount(sorted, e) ==
    IF sorted = <<>> THEN <<e>>
    ELSE IF Head(sorted).count >= e.count
    THEN <<Head(sorted)>> \o InsertByCount(Tail(sorted), e)
    ELSE <<e>> \o sorted

\* As if the entries were taken in insertion order, unsorted.
insertionOrder(entries) == entries

RECURSIVE sortByCount(_)
\* Array.prototype.sort((a, b) => b[1].count - a[1].count): a stable sort,
\* entries with equal counts keep their order.
sortByCount(entries) ==
    IF entries = <<>> THEN <<>>
    ELSE InsertByCount(sortByCount(SubSeq(entries, 1, Len(entries) - 1)),
                       entries[Len(entries)])

generateErrorReport ==
    LET sortedErrors == slice2(sortByCount(errorStats), 0, 5)
        types == {errorStats[i].type : i \in 1..Len(errorStats)}
        severities == {errorStats[i].severity : i \in 1..Len(errorStats)}
    IN  [totalErrors |-> SumCounts(errorStats),
         errorsByType |->
             [t \in types |-> SumCountsBy(errorStats, "type", t)],
         errorsBySeverity |->
             [v \in severities |-> SumCountsBy(errorStats, "severity", v)],
         mostFrequent |->
             [i \in 1..Len(sortedErrors) |->
                 [type |-> sortedErrors[i].type, count |-> sortedErrors[i].count,
                  firstSeen |-> sortedErrors[i].firstSeen,
                  lastSeen |-> sortedErrors[i].lastSeen]]]

(***************************************************************************)
(* State after construction                                                *)
(***************************************************************************)
RuleLists == {DefaultPatterns} \cup CustomPatterns

Configs ==
    [maxBufferLines : 1..MaxBufferCap,
     maxErrorsPerType : 1..MaxLedgerCap,
     contextBefore : {contextBefore},
     contextAfter : {contextAfter},
     useFileWatcher : BOOLEAN,
     customPromptTemplate : {<<>>},
     errorPatterns : RuleLists]

CycleSlots == 1..MaxCycles
TickSlots == 1..MaxTicks

\* handleError's errorData before it is built.
NoData == [type |-> "", severity |-> "", timestamp |-> "", context |-> <<>>]

IdleCycle == [pc |-> "idle", content |-> <<>>, errorInfo |-> NoError, errorData |-> NoData,
              prompt |-> <<>>]
IdleTick == [pc |-> "idle", content |-> <<>>, gen |-> 0, filePath |-> <<>>,
             absolutePath |-> <<>>, fileContent |-> <<>>, command |-> <<>>]

Constructed ==
    /\ buffer = <<>>
    /\ lastContent = <<>>
    /\ lastClipboardContent = <<>>
    /\ isProcessing = FALSE
    /\ errorStats = <<>>
    /\ watcher = FALSE
    /\ polling = FALSE
    /\ clipTimer = FALSE
    /\ cycles = [s \in CycleSlots |-> IdleCycle]
    /\ ticks = [s \in TickSlots |-> IdleTick]
    /\ pendingEvents = <<>>
    /\ pollDue = FALSE
    /\ clipDue = FALSE
    /\ fileContent = File(<<>>)
    /\ now = 0
    /\ clipboard = [text |-> <<>>, gen |-> 0]
    /\ files = <<>>
    /\ dirs = {}
    /\ lastNotification = <<"none", "">>
    /\ execs = <<>>
    /\ written = <<>>
    /\ lastEvent = "none"

DefaultConfig ==
    [maxBufferLines |-> MaxBufferCap, maxErrorsPerType |-> MaxLedgerCap,
     contextBefore |-> contextBefore, contextAfter |-> contextAfter,
     useFileWatcher |-> TRUE, customPromptTemplate |-> <<>>,
     errorPatterns |-> DefaultPatterns]

Init ==
    /\ config \in Configs
    /\ lastIndex = [j \in 1..Len(config.errorPatterns) |-> 0]
    /\ Constructed

(***************************************************************************)
(* start                                                                   *)
(***************************************************************************)
StartFrame == <<config, lastIndex, buffer, lastContent, lastClipboardContent,
                isProcessing, errorStats, cycles, ticks, pendingEvents, pollDue,
                clipDue, fileContent, now, clipboard, files, dirs,
                lastNotification, execs, written, lastEvent>>

\* As if startFileWatcher let the exception of fs.watch end the watcher setup
\* without starting the polling timer.
StartWithoutFallback(watchOk) ==
    /\ ~watcher /\ ~polling /\ ~clipTimer
    /\ IF config.useFileWatcher
       THEN watcher' = watchOk /\ polling' = FALSE
       ELSE watcher' = FALSE /\ polling' = TRUE
    /\ clipTimer' = TRUE
    /\ UNCHANGED StartFrame

\* start(), with fs.watch succeeding (watchOk) or throwing: the watcher when
\* configured and fs.watch does not throw, the polling timer otherwise; then
\* the clipboard timer.
StartWith(watchOk) ==
    /\ ~watcher /\ ~polling /\ ~clipTimer
    /\ IF config.useFileWatcher /\ watchOk
       THEN watcher' = TRUE /\ polling' = FALSE
       ELSE watcher' = FALSE /\ polling' = TRUE
    /\ clipTimer' = TRUE
    /\ UNCHANGED StartFrame

Start == \E watchOk \in BOOLEAN : StartWith(watchOk)

(***************************************************************************)
(* The log file and its drive sources                                      *)
(***************************************************************************)
LogAlphabet == {"E", "T", NL}

\* fs.watch queues an event for the subscription, if there is one.
Notify(ev) ==
    IF watcher
    THEN Len(pendingEvents) < MaxPending /\ pendingEvents' = Append(pendingEvents, ev)
    ELSE UNCHANGED pendingEvents

envFrame == <<config, lastIndex, buffer, lastContent, lastClipboardContent, isProcessing,
              errorStats, watcher, polling, clipTimer, cycles, ticks, pollDue, clipDue,
              clipboard, files, dirs, lastNotification, execs, written, lastEvent>>

\* The application appends to its log.
AppendLog ==
    /\ fileContent.readable
    /\ Len(fileContent.text) < MaxLogLen
    /\ now < MaxTime
    /\ \E tok \in LogAlphabet : fileContent' = File(Append(fileContent.text, tok))
    /\ now' = now + 1
    /\ Notify("change")
    /\ UNCHANGED envFrame

\* The log is truncated, or created empty.
TruncateLog ==
    /\ fileContent # File(<<>>)
    /\ now < MaxTime
    /\ fileContent' = File(<<>>)
    /\ now' = now + 1
    /\ Notify(IF fileContent.readable THEN "change" ELSE "rename")
    /\ UNCHANGED envFrame

\* The log is removed or made unreadable.
RemoveLog ==
    /\ fileContent.readable
    /\ now < MaxTime
    /\ fileContent' = Unreadable
    /\ now' = now + 1
    /\ Notify("rename")
    /\ UNCHANGED envFrame

\* setInterval(..., checkInterval): the interval elapses and the callback is queued.
PollElapse ==
    /\ polling /\ ~pollDue
    /\ pollDue' = TRUE
    /\ UNCHANGED <<config, lastIndex, buffer, lastContent, lastClipboardContent,
                   isProcessing, errorStats, watcher, polling, clipTimer, cycles, ticks,
                   pendingEvents, clipDue, fileContent, now, clipboard, files, dirs,
                   lastNotification, execs, written, lastEvent>>

(***************************************************************************)
(* processLogFile                                                          *)
(***************************************************************************)
FreeCycleSlots == {s \in CycleSlots : cycles[s].pc = "idle"}

Running == {s \in CycleSlots : cycles[s].pc # "idle"}

NeverBusy(flag) == FALSE

\* if (this.isProcessing) return;
Busy(flag) == flag

\* As if processLogFile did not set the flag before its first await.
processLogFileHeadUnflagged ==
    IF Busy(isProcessing)
    THEN /\ UNCHANGED <<isProcessing, cycles>>
         /\ lastEvent' = "dropped"
    ELSE /\ FreeCycleSlots # {}
         /\ UNCHANGED isProcessing
         /\ lastEvent' = "started"
         /\ cycles' = [cycles EXCEPT ![CHOOSE s \in FreeCycleSlots :
                                          \A u \in FreeCycleSlots : s <= u] =
                                      [IdleCycle EXCEPT !.pc = "read"]]

\* The synchronous head of processLogFile, up to the await of readLogFile.
processLogFileHead ==
    IF Busy(isProcessing)
    THEN /\ UNCHANGED <<isProcessing, cycles>>
         /\ lastEvent' = "dropped"
    ELSE /\ FreeCycleSlots # {}
         /\ isProcessing' = TRUE
         /\ lastEvent' = "started"
         /\ cycles' = [cycles EXCEPT ![CHOOSE s \in FreeCycleSlots :
                                          \A u \in FreeCycleSlots : s <= u] =
                                      [IdleCycle EXCEPT !.pc = "read"]]

\* The watch callback runs for the oldest queued event.
WatchEvent ==
    /\ pendingEvents # <<>>
    /\ pendingEvents' = Tail(pendingEvents)
    /\ IF Head(pendingEvents) = "change" /\ ~isProcessing
       THEN processLogFileHead
       ELSE /\ UNCHANGED <<isProcessing, cycles>>
            /\ lastEvent' = IF Head(pendingEvents) = "change" THEN "dropped" ELSE "ignored"
    /\ UNCHANGED <<config, lastIndex, buffer, lastContent, lastClipboardContent,
                   errorStats, watcher, polling, clipTimer, ticks, pollDue, clipDue,
                   fileContent, now, clipboard, files, dirs, lastNotification, execs, written>>

\* The polling callback runs.
PollTick ==
    /\ pollDue
    /\ pollDue' = FALSE
    /\ processLogFileHead
    /\ UNCHANGED <<config, lastIndex, buffer, lastContent, lastClipboardContent,
                   errorStats, watcher, polling, clipTimer, ticks, pendingEvents, clipDue,
                   fileContent, now, clipboard, files, dirs, lastNotification, execs, written>>

\* As if the catch block returned error.message instead of null.
readLogFileMessage == IF fileContent.readable THEN Str(fileContent.text) ELSE Str(<<"E">>)

\* readLogFile: the file's text, or null when fs.readFile fails.
readLogFile == IF fileContent.readable THEN Str(fileContent.text) ELSE Null

neverUnchanged(content, last) == FALSE

\* content === this.lastContent
unchanged(content, last) == content.text = last

\* As if the flag were cleared only in the try block's normal path and the
\* early returns skipped it.
FinishKeepFlag(s) ==
    /\ UNCHANGED isProcessing
    /\ cycles' = [cycles EXCEPT ![s] = IdleCycle]

\* The finally block.
Finish(s) ==
    /\ isProcessing' = FALSE
    /\ cycles' = [cycles EXCEPT ![s] = IdleCycle]

\* readLogFile has completed: processLogFile runs on to its next await (the
\* clipboard write in handleError) or to its end.
ReadDone(s) ==
    /\ cycles[s].pc = "read"
    /\ LET content == readLogFile IN
       IF Falsy(content) \/ unchanged(content, lastContent)
       THEN /\ Finish(s)
            /\ lastEvent' = IF content.isNull THEN "unreadable"
                            ELSE IF content.text = <<>> THEN "empty" ELSE "unchanged"
            /\ UNCHANGED <<buffer, lastIndex, lastContent>>
       ELSE LET buf == updateBuffer(content.text, config.maxBufferLines)
                r == findFirstError(buf, config.errorPatterns, lastIndex)
                context == getErrorContext(buf, r.info.index, config.contextBefore,
                                           config.contextAfter)
                errorData == [type |-> r.info.type, severity |-> r.info.severity,
                              timestamp |-> toISOString(now), context |-> context]
            IN  /\ buffer' = buf
                /\ lastIndex' = r.li
                /\ IF r.info.found
                   THEN /\ cycles' = [cycles EXCEPT ![s] =
                                        [pc |-> "clip", content |-> content.text,
                                         errorInfo |-> r.info,
                                         errorData |-> errorData,
                                         prompt |-> formatErrorPrompt(errorData)]]
                        /\ lastEvent' = "matched"
                        /\ UNCHANGED <<lastContent, isProcessing>>
                   ELSE /\ lastContent' = content.text
                        /\ lastEvent' = "nomatch"
                        /\ Finish(s)
    /\ UNCHANGED <<config, lastClipboardContent, errorStats, watcher, polling, clipTimer,
                   ticks, pendingEvents, pollDue, clipDue, fileContent, now, clipboard,
                   files, dirs, lastNotification, execs, written>>

\* clipboardy.write has completed or thrown: the rest of handleError, then
\* updateErrorStats, lastContent and the finally block.
ClipWriteDone(s) ==
    /\ cycles[s].pc = "clip"
    /\ \E ok \in BOOLEAN :
         IF ok
         THEN /\ clipboard' = [clipboard EXCEPT !.text = cycles[s].prompt]
              /\ lastNotification' = <<"Error Detected", cycles[s].errorInfo.type>>
         ELSE UNCHANGED <<clipboard, lastNotification>>
    /\ errorStats' = updateErrorStats(errorStats, cycles[s].errorInfo,
                                      config.maxErrorsPerType, now)
    /\ lastContent' = cycles[s].content
    /\ lastEvent' = "handled"
    /\ Finish(s)
    /\ UNCHANGED <<config, lastIndex, buffer, lastClipboardContent, watcher, polling,
                   clipTimer, ticks, pendingEvents, pollDue, clipDue, fileContent, now,
                   files, dirs, execs, written>>

Next ==
    \/ Start
    \/ AppendLog
    \/ TruncateLog
    \/ RemoveLog
    \/ PollElapse
    \/ WatchEvent
    \/ PollTick
    \/ \E s \in CycleSlots : ReadDone(s)
    \/ \E s \in CycleSlots : ClipWriteDone(s)

Spec == Init /\ [][Next]_vars

\* The promises a cycle awaits settle: fs.readFile resolves or rejects, and
\* clipboardy.write resolves or rejects.
Fairness ==
    /\ WF_vars(\E s \in CycleSlots : ReadDone(s))
    /\ WF_vars(\E s \in CycleSlots : ClipWriteDone(s))

\* The built-in rules, in watch mode or polling mode.
LiveInit ==
    /\ config \in {[DefaultConfig EXCEPT !.useFileWatcher = w] : w \in BOOLEAN}
    /\ lastIndex = [j \in 1..Len(config.errorPatterns) |-> 0]
    /\ Constructed

LiveSpec == LiveInit /\ [][Next]_vars /\ Fairness

\* The event loop runs what is due: start() is called, the interval timer
\* keeps elapsing and its callback runs, a queued watch event is delivered to
\* the watch callback, and awaited promises settle.  The application that
\* writes the log is under no obligation.
Scheduling ==
    /\ Fairness
    /\ WF_vars(Start)
    /\ WF_vars(PollElapse)
    /\ WF_vars(PollTick)
    /\ WF_vars(WatchEvent)

DriveSpec == LiveInit /\ [][Next]_vars /\ Scheduling

(***************************************************************************)
(* The clipboard monitor loop: directive parsing and the file writer       *)
(***************************************************************************)
MARK == "#auto-ai"
SP == " "
SEP == "/"

\* String.prototype.startsWith('#auto-ai')
startsWith(content, marker) == content # <<>> /\ content[1] = marker

RECURSIVE trimStart(_)
trimStart(t) == IF t # <<>> /\ Head(t) = SP THEN trimStart(Tail(t)) ELSE t

RECURSIVE trimEnd(_)
trimEnd(t) ==
    IF t # <<>> /\ t[Len(t)] = SP THEN trimEnd(SubSeq(t, 1, Len(t) - 1)) ELSE t

\* String.prototype.trim
trim(t) == trimEnd(trimStart(t))

tooFewLines(lines) == Len(lines) < 2

\* if (lines.length < 3) throw new Error('Invalid #auto-ai format...')
invalidFormat(lines) == Len(lines) < 3

\* const [directive, command = 'replace'] = lines[0].split(' ')
commandOf(firstLine) ==
    LET parts == split(firstLine, SP)
    IN  IF Len(parts) >= 2 THEN parts[2] ELSE <<"replace">>

\* The directory of the monitored log: path.dirname(path.resolve(this.logPath)),
\* as its components from the root.
logDir == << <<"home">>, <<"logs">> >>

RECURSIVE normalize(_, _)
\* path.join's normalisation: the components of the joined path are applied
\* to the directory in turn; "" and "." stay, ".." goes to the parent.
normalize(at, components) ==
    IF components = <<>> THEN at
    ELSE LET c == Head(components) IN
         IF c = <<>> \/ c = <<".">> THEN normalize(at, Tail(components))
         ELSE IF c = <<"..">>
         THEN normalize(IF at = <<>> THEN at ELSE SubSeq(at, 1, Len(at) - 1),
                        Tail(components))
         ELSE normalize(Append(at, c), Tail(components))

\* filePath.replace(/^\//, ''): one leading separator is removed.
stripLeadingSeparator(filePath) ==
    IF filePath # <<>> /\ Head(filePath) = SEP THEN Tail(filePath) ELSE filePath

\* path.join(logDir, filePath.replace(/^\//, ''))
resolveTarget(filePath) == normalize(logDir, split(stripLeadingSeparator(filePath), SEP))

\* path.dirname of a resolved path
dirname(p) == IF p = <<>> THEN p ELSE SubSeq(p, 1, Len(p) - 1)

\* The path and its ancestors below the root.
WithAncestors(p) == {SubSeq(p, 1, n) : n \in 1..Len(p)}

\* p is dir or lies below it.
Under(p, dir) == Len(p) >= Len(dir) /\ SubSeq(p, 1, Len(dir)) = dir

IsDirectory(p) == p \in dirs \/ p = <<>> \/ p \in WithAncestors(logDir)

\* Clipboard texts the user (or a program) places.
Directive(header, target, payload) == header \o <<NL>> \o target \o <<NL>> \o payload

ClipTexts ==
    { Directive(<<MARK, SP, "append">>, <<SEP, "out">>, <<"x">>),
      Directive(<<MARK>>, <<"..", SEP, "out">>, <<"x">>),
      Directive(<<MARK, SP, "append">>, <<SP, "out", SEP, ".", SEP, "f", SP>>, <<"x">>) }
      \cup { Directive(<<MARK, SP, "replace">>, <<SEP, "out">>, <<"x", NL, "y">>),
             <<NL, "#ERROR_ANALYSIS_REQUEST", NL, "general">>,
             <<MARK, NL, SEP, "out">>,
             Directive(<<MARK, SP, SP, "append">>, <<SEP, "out">>, <<"x">>) }

tickFrame == <<config, lastIndex, buffer, lastContent, isProcessing, errorStats, watcher,
               polling, clipTimer, cycles, pendingEvents, pollDue, fileContent, now,
               lastEvent>>

\* As if the success notification were sent after the try block, whatever
\* the writer did.
alwaysSuccess(ok) == "File Operation Success"

\* The title of the notification processClipboardContent sends: after
\* writeFile returns, or from the catch block.
outcomeTitle(ok) == IF ok THEN "File Operation Success" ELSE "Error"

\* Text is copied to the clipboard.
SetClipboard ==
    /\ clipboard.gen < MaxPlacements
    /\ \E text \in ClipTexts :
          clipboard' = [text |-> text, gen |-> clipboard.gen + 1]
    /\ execs' = Append(execs, 0)
    /\ UNCHANGED <<lastClipboardContent, ticks, clipDue, files, dirs, lastNotification,
                   written>>
    /\ UNCHANGED tickFrame

\* setInterval(..., 1000): the second elapses and the callback is queued.
ClipElapse ==
    /\ clipTimer /\ ~clipDue
    /\ clipDue' = TRUE
    /\ UNCHANGED <<lastClipboardContent, ticks, clipboard, files, dirs, lastNotification,
                   execs, written>>
    /\ UNCHANGED tickFrame

FreeTickSlots == {s \in TickSlots : ticks[s].pc = "idle"}

\* The clipboard callback starts and awaits clipboardy.read().
ClipTick ==
    /\ clipDue
    /\ FreeTickSlots # {}
    /\ clipDue' = FALSE
    /\ ticks' = [ticks EXCEPT ![CHOOSE s \in FreeTickSlots :
                                   \A u \in FreeTickSlots : s <= u] =
                                [IdleTick EXCEPT !.pc = "read"]]
    /\ UNCHANGED <<lastClipboardContent, clipboard, files, dirs, lastNotification, execs, written>>
    /\ UNCHANGED tickFrame

\* As if last-seen were recorded only for directives that reach the writer.
NotRecorded(s, content) ==
    /\ UNCHANGED lastClipboardContent
    /\ ticks' = [ticks EXCEPT ![s] = IdleTick]

\* The callback's tail after processClipboardContent returns:
\* this.lastClipboardContent = content.
Processed(s, content) ==
    /\ lastClipboardContent' = content
    /\ ticks' = [ticks EXCEPT ![s] = IdleTick]

\* clipboardy.read() has resolved (ok) or thrown: the callback runs on, through
\* processClipboardContent, to the await of fs.mkdir in writeFile or to its end.
ClipRead(s, ok) ==
    /\ ticks[s].pc = "read"
    /\ LET content == clipboard.text
           lines == split(content, NL)
       IN  IF ~ok \/ content = <<>> \/ content = lastClipboardContent
           THEN /\ ticks' = [ticks EXCEPT ![s] = IdleTick]
                /\ UNCHANGED <<lastClipboardContent, lastNotification>>
           ELSE IF ~startsWith(content, MARK)
           THEN /\ Processed(s, content)
                /\ UNCHANGED <<lastNotification>>
           ELSE IF invalidFormat(lines)
           THEN /\ Processed(s, content)
                /\ lastNotification' = <<outcomeTitle(FALSE), "Invalid #auto-ai format">>
           ELSE /\ ticks' = [ticks EXCEPT ![s] =
                              [pc |-> "mkdir", content |-> content,
                               gen |-> clipboard.gen,
                               filePath |-> trim(lines[2]),
                               absolutePath |-> resolveTarget(trim(lines[2])),
                               fileContent |-> join(slice(lines, 2), NL),
                               command |-> commandOf(lines[1])]]
                /\ UNCHANGED <<lastClipboardContent, lastNotification>>
    /\ UNCHANGED <<clipDue, clipboard, files, dirs, execs, written>>
    /\ UNCHANGED tickFrame

ClipReadDone(s) == \E ok \in BOOLEAN : ClipRead(s, ok)

\* fs.mkdir(dirname, {recursive: true}) has completed or thrown.
MkdirDone(s) ==
    /\ ticks[s].pc = "mkdir"
    /\ \E ioOk \in BOOLEAN :
         LET parent == dirname(ticks[s].absolutePath)
             ok == ioOk /\ WithAncestors(parent) \cap DOMAIN files = {}
         IN  IF ok
             THEN /\ dirs' = dirs \cup {d \in WithAncestors(parent) : ~IsDirectory(d)}
                  /\ ticks' = [ticks EXCEPT ![s].pc = "write"]
                  /\ UNCHANGED <<lastClipboardContent, lastNotification>>
             ELSE /\ Processed(s, ticks[s].content)
                  /\ lastNotification' = <<outcomeTitle(FALSE), "file system">>
                  /\ UNCHANGED dirs
    /\ UNCHANGED <<clipDue, clipboard, files, execs, written>>
    /\ UNCHANGED tickFrame

\* fs.appendFile / fs.writeFile has completed or thrown; then the success or
\* failure notification of processClipboardContent.
WriteDone(s) ==
    /\ ticks[s].pc = "write"
    /\ \E ioOk \in BOOLEAN :
         LET target == ticks[s].absolutePath
             ok == ioOk /\ ~IsDirectory(target)
                        /\ WithAncestors(dirname(target)) \cap DOMAIN files = {}
             old == IF target \in DOMAIN files THEN files[target] ELSE <<>>
             new == IF ticks[s].command = <<"append">>
                    THEN old \o ticks[s].fileContent
                    ELSE ticks[s].fileContent
         IN  IF ok
             THEN /\ files' = [q \in DOMAIN files \cup {target} |->
                                 IF q = target THEN new ELSE files[q]]
                  /\ execs' = [execs EXCEPT ![ticks[s].gen] = @ + 1]
                  /\ written' = [q \in DOMAIN written \cup {target} |->
                                   (IF q \in DOMAIN written THEN written[q] ELSE <<>>)
                                   \o (IF q = target
                                       THEN <<[content |-> ticks[s].content,
                                               command |-> ticks[s].command]>>
                                       ELSE <<>>)]
                  /\ lastNotification' = <<outcomeTitle(TRUE), ticks[s].filePath>>
             ELSE /\ lastNotification' = <<outcomeTitle(FALSE), "file system">>
                  /\ UNCHANGED <<files, execs, written>>
    /\ Processed(s, ticks[s].content)
    /\ UNCHANGED <<clipDue, clipboard, dirs>>
    /\ UNCHANGED tickFrame

ClipInit ==
    /\ config = DefaultConfig
    /\ lastIndex = [j \in 1..Len(config.errorPatterns) |-> 0]
    /\ Constructed

ClipNext ==
    \/ Start
    \/ SetClipboard
    \/ ClipElapse
    \/ ClipTick
    \/ \E s \in TickSlots : ClipReadDone(s)
    \/ \E s \in TickSlots : MkdirDone(s)
    \/ \E s \in TickSlots : WriteDone(s)

\* The clipboard loop alone, with the clipboard's other writers as the environment.
ClipSpec == ClipInit /\ [][ClipNext]_vars

(***************************************************************************)
(* The clipboard loop fed directives for one path, one after another       *)
(***************************************************************************)
\* Directives that target <logDir>/out, and one that lacks its payload.
WriterTexts ==
    { Directive(<<MARK, SP, "replace">>, <<SEP, "out">>, <<"x">>),
      Directive(<<MARK, SP, "append">>, <<SEP, "out">>, <<"y">>),
      Directive(<<MARK, SP, SP, "append">>, <<SEP, "out">>, <<"y">>),
      <<MARK, SP, "append", NL, SEP, "out">> }

\* A directive is copied to the clipboard.
PlaceDirective ==
    /\ clipboard.gen < MaxDirectives
    /\ \E text \in WriterTexts :
          clipboard' = [text |-> text, gen |-> clipboard.gen + 1]
    /\ execs' = Append(execs, 0)
    /\ UNCHANGED <<lastClipboardContent, ticks, clipDue, files, dirs, lastNotification,
                   written>>
    /\ UNCHANGED tickFrame

WriterNext ==
    \/ Start
    \/ PlaceDirective
    \/ ClipElapse
    \/ ClipTick
    \/ \E s \in TickSlots : ClipReadDone(s)
    \/ \E s \in TickSlots : MkdirDone(s)
    \/ \E s \in TickSlots : WriteDone(s)

WriterSpec == ClipInit /\ [][WriterNext]_vars

(***************************************************************************)
(* Both loops of one monitor: the log loop's prompt reaches the clipboard  *)
(* that the clipboard loop reads                                           *)
(***************************************************************************)
\* The directive the user copies while the log is monitored.
MonitorTexts == { Directive(<<MARK, SP, "append">>, <<SEP, "out">>, <<"x">>) }

\* The user copies a directive to the clipboard.
CopyDirective ==
    /\ clipboard.gen < MaxPlacements
    /\ \E text \in MonitorTexts :
          clipboard' = [text |-> text, gen |-> clipboard.gen + 1]
    /\ execs' = Append(execs, 0)
    /\ UNCHANGED <<lastClipboardContent, ticks, clipDue, files, dirs, lastNotification,
                   written>>
    /\ UNCHANGED tickFrame

MonitorNext ==
    \/ Start
    \/ AppendLog
    \/ PollElapse
    \/ WatchEvent
    \/ PollTick
    \/ \E s \in CycleSlots : ReadDone(s)
    \/ \E s \in CycleSlots : ClipWriteDone(s)
    \/ CopyDirective
    \/ ClipElapse
    \/ ClipTick
    \/ \E s \in TickSlots : ClipReadDone(s)
    \/ \E s \in TickSlots : MkdirDone(s)
    \/ \E s \in TickSlots : WriteDone(s)

\* start() with the default configuration: the log loop in watch mode or, when
\* fs.watch throws, in polling mode, and the clipboard loop beside it.
MonitorSpec == ClipInit /\ [][MonitorNext]_vars

(***************************************************************************)
(* updateErrorStats on arbitrary sequences of matches                      *)
(***************************************************************************)
\* Matches findFirstError can return: three keys.
LedgerInputs ==
    { [found |-> TRUE, line |-> <<"E">>, index |-> 0, type |-> "general", severity |-> "high"],
      [found |-> TRUE, line |-> <<"T">>, index |-> 0, type |-> "javascript",
       severity |-> "critical"],
      [found |-> TRUE, line |-> <<"E", "E">>, index |-> 0, type |-> "general",
       severity |-> "high"] }

ledgerFrame == <<config, lastIndex, buffer, lastContent, lastClipboardContent, isProcessing,
                 watcher, polling, clipTimer, cycles, ticks, pendingEvents, pollDue,
                 clipDue, fileContent, clipboard, files, dirs, lastNotification, execs, written>>

\* Time passes.
LedgerTick ==
    /\ now < MaxTime
    /\ now' = now + 1
    /\ UNCHANGED <<errorStats, lastEvent>>
    /\ UNCHANGED ledgerFrame

\* this.updateErrorStats(errorInfo) for any match.  lastEvent notes whether a
\* key left the ledger, and whether that key had been updated later than a
\* key that stays.
LedgerRecord ==
    /\ \E e \in LedgerInputs :
          LET i == KeyIndex(errorStats, statsKey(e)) IN
          /\ IF i = 0 THEN TRUE ELSE errorStats[i].count < MaxCount
          /\ errorStats' = updateErrorStats(errorStats, e, config.maxErrorsPerType, now)
    /\ lastEvent' =
          LET gone == {i \in 1..Len(errorStats) :
                          \A j \in 1..Len(errorStats') : errorStats'[j].key # errorStats[i].key}
              kept == (1..Len(errorStats)) \ gone
          IN  IF gone = {} THEN "recorded"
              ELSE IF \E g \in gone, k \in kept :
                          errorStats[k].lastSeen < errorStats[g].lastSeen
              THEN "evicted a key updated later than a resident one"
              ELSE "evicted"
    /\ UNCHANGED now
    /\ UNCHANGED ledgerFrame

LedgerInit ==
    /\ config \in {[DefaultConfig EXCEPT !.maxErrorsPerType = c] : c \in 1..MaxRecordCap}
    /\ lastIndex = [j \in 1..Len(config.errorPatterns) |-> 0]
    /\ Constructed

LedgerNext == LedgerTick \/ LedgerRecord

\* The stats ledger alone, fed any sequence of matches.
LedgerSpec == LedgerInit /\ [][LedgerNext]_vars

(***************************************************************************)
(* generateErrorReport on ledgers of more than five keys                   *)
(***************************************************************************)
\* Matches findFirstError can return: six keys.
ReportInputs ==
    LedgerInputs \cup
    { [found |-> TRUE, line |-> <<"T", "E">>, index |-> 0, type |-> "javascript",
       severity |-> "critical"],
      [found |-> TRUE, line |-> <<"E", "E", "E">>, index |-> 0, type |-> "general",
       severity |-> "high"],
      [found |-> TRUE, line |-> <<"T", "T">>, index |-> 0, type |-> "javascript",
       severity |-> "critical"] }

\* this.updateErrorStats(errorInfo) for any of these matches.
ReportRecord ==
    /\ \E e \in ReportInputs :
          LET i == KeyIndex(errorStats, statsKey(e)) IN
          /\ IF i = 0 THEN TRUE ELSE errorStats[i].count < MaxCount
          /\ errorStats' = updateErrorStats(errorStats, e, config.maxErrorsPerType, now)
    /\ lastEvent' = "recorded"
    /\ UNCHANGED now
    /\ UNCHANGED ledgerFrame

\* A ledger with room for every key (CONFIG.maxErrorsPerType is 100).
ReportInit ==
    /\ config = [DefaultConfig EXCEPT !.maxErrorsPerType = Cardinality(ReportInputs)]
    /\ lastIndex = [j \in 1..Len(config.errorPatterns) |-> 0]
    /\ Constructed

ReportNext == ReportRecord

\* The stats ledger as the report generator sees it at shutdown.
ReportSpec == ReportInit /\ [][ReportNext]_vars

(***************************************************************************)
(* formatErrorPrompt on arbitrary templates and records                    *)
(***************************************************************************)
\* Custom prompt templates (loadCustomConfigurations reads any text file):
\* the four placeholders in two orders, and one with a placeholder twice.
Templates ==
    { <<"${type}", SP, "${severity}", SP, "${timestamp}", NL, "${context}">>,
      <<"${context}", NL, "${timestamp}", "${severity}", "${type}", "Please provide:">>,
      <<"${type}", SP, "${severity}", SP, "${timestamp}", NL, "${context}", NL, "${type}">> }

\* Error contexts: log text, which may hold dollar signs and ampersands.
Contexts == UNION {[1..n -> {"E", "$", "&", NL}] : n \in 0..MaxContextLen}

\* The errorData records handleError builds.
Records ==
    [type : {"javascript", "general"}, severity : {"critical", "high"},
     timestamp : {toISOString(0)}, context : Contexts]

\* handleError up to its await of clipboardy.write, for any record:
\* const prompt = this.formatErrorPrompt(errorData).
FormatPrompt ==
    /\ \E record \in Records :
          cycles' = [cycles EXCEPT ![1] = [IdleCycle EXCEPT !.pc = "clip",
                                                            !.errorData = record,
                                                            !.prompt = formatErrorPrompt(record)]]
    /\ isProcessing' = TRUE
    /\ UNCHANGED <<config, lastIndex, buffer, lastContent, lastClipboardContent, errorStats,
                   watcher, polling, clipTimer, ticks, pendingEvents, pollDue, clipDue,
                   fileContent, now, clipboard, files, dirs, lastNotification, execs, written,
                   lastEvent>>

FormatInit ==
    /\ config \in {[DefaultConfig EXCEPT !.customPromptTemplate = t] : t \in Templates}
    /\ lastIndex = [j \in 1..Len(config.errorPatterns) |-> 0]
    /\ Constructed

FormatNext == FormatPrompt

\* The prompt formatter alone, fed any record.
FormatSpec == FormatInit /\ [][FormatNext]_vars

(***************************************************************************)
(* Properties of the log monitor loop                                      *)
(***************************************************************************)
\* C1: under every interleaving of watch events, polling ticks and I/O
\* completions, at most one processLogFile cycle is between setting and
\* clearing isProcessing.
C1_AtMostOneCycle == Cardinality(Running) <= 1

\* A cycle is awaiting its clipboard write while another trigger is queued.
C1_Witness ==
    /\ \E s \in CycleSlots : cycles[s].pc = "clip"
    /\ (pollDue \/ pendingEvents # <<>>)

\* The lines of a text, as the claim's "newline-split content".
Lines(text) == split(text, NL)

\* buf is exactly the last min(cap, n) of the n lines, in order.
IsTrailing(buf, lines, cap) ==
    /\ Len(buf) = Min(Len(lines), cap)
    /\ \A i \in 1..Len(buf) : buf[i] = lines[Len(lines) - Len(buf) + i]

\* The content the buffer was last rebuilt from: that of the cycle awaiting
\* its clipboard write, else lastContent.
BufferSource ==
    IF \E s \in CycleSlots : cycles[s].pc = "clip"
    THEN cycles[CHOOSE s \in CycleSlots : cycles[s].pc = "clip"].content
    ELSE lastContent

\* C3: the buffer never holds more than maxBufferLines entries, and after
\* updateBuffer they are exactly the trailing lines of the content, in order.
C3_BufferBounded ==
    /\ Len(buffer) <= config.maxBufferLines
    /\ BufferSource # <<>> => IsTrailing(buffer, Lines(BufferSource), config.maxBufferLines)

\* The content had more lines than the buffer holds: lines were dropped.
C3_Witness ==
    /\ lastContent # <<>>
    /\ Len(Lines(lastContent)) > config.maxBufferLines
    /\ Len(buffer) = config.maxBufferLines
    /\ lastEvent \in {"nomatch", "handled"}

\* The rule's expression matches the line (somewhere in it).
Matches(rule, line) == \E i \in 1..Len(line) : line[i] \in rule.tokens

AnyRuleMatches(rules, line) == \E j \in 1..Len(rules) : Matches(rules[j], line)

\* C4: findFirstError returns the match at the lowest buffer index that any
\* rule matches, tagged with the first rule in list order matching that line.
\* and returns none only when no rule matches any line.  (Stated of the cycle
\* that holds findFirstError's result, and of the cycle that ended unmatched.)
C4_FirstMatch ==
    /\ lastEvent = "nomatch" =>
          \A i \in 1..Len(buffer) : ~AnyRuleMatches(config.errorPatterns, buffer[i])
    /\ \A s \in CycleSlots :
        cycles[s].pc = "clip" =>
            LET e == cycles[s].errorInfo
                rules == config.errorPatterns
            IN  /\ e.index + 1 \in 1..Len(buffer)
                /\ e.line = buffer[e.index + 1]
                /\ \A i \in 1..e.index : ~AnyRuleMatches(rules, buffer[i])
                /\ \E j \in 1..Len(rules) :
                      /\ Matches(rules[j], e.line)
                      /\ \A k \in 1..(j - 1) : ~Matches(rules[k], e.line)
                      /\ e.type = rules[j].type
                      /\ e.severity = rules[j].severity

Keys(stats) == {stats[i].key : i \in 1..Len(stats)}

\* C5: after every updateErrorStats, for any sequence of recorded matches, the
\* ledger holds at most maxErrorsPerType keys, and a step that evicts removes
\* one key, the oldest-inserted one (the earliest firstSeen), whatever was
\* updated since.
C5_LedgerBounded ==
    [][ /\ Len(errorStats') <= config.maxErrorsPerType
        /\ Cardinality(Keys(errorStats) \ Keys(errorStats')) <= 1
        /\ \A i \in 1..Len(errorStats) :
              errorStats[i].key \notin Keys(errorStats') =>
                  /\ \A j \in 1..Len(errorStats) :
                        errorStats[i].firstSeen <= errorStats[j].firstSeen
                  /\ \A j \in 1..Len(errorStats') :
                        errorStats[i].firstSeen <= errorStats'[j].firstSeen
      ]_vars

\* The ledger was full, and the key evicted was the oldest-inserted although it
\* had been updated after a key that stays resident.
C5_Witness ==
    /\ lastEvent = "evicted a key updated later than a resident one"
    /\ config.maxErrorsPerType >= 2
    /\ Len(errorStats) = config.maxErrorsPerType

\* A step that completes the cycle's read.
ReadCompletes(s) == cycles[s].pc = "read" /\ cycles'[s].pc # "read"

\* C8: a cycle that finds the log unreadable ends with buffer, lastContent,
\* the ledger and the clipboard unchanged and the flag cleared, so that the
\* next trigger starts a cycle.
C8_UnreadableNoChange ==
    [][ \A s \in CycleSlots :
          (ReadCompletes(s) /\ ~fileContent.readable) =>
              /\ UNCHANGED <<buffer, lastContent, errorStats, clipboard>>
              /\ cycles'[s].pc = "idle"
              /\ ~isProcessing'
      ]_vars

\* An unreadable cycle has ended with content, buffer and ledger in place.
C8_Witness ==
    /\ lastEvent = "unreadable"
    /\ lastContent # <<>>
    /\ errorStats # <<>>
    /\ ~isProcessing

\* C9: a cycle that reads exactly lastContent changes nothing; and buffer,
\* lastContent, ledger and clipboard change only in a cycle whose content
\* read differs from lastContent.
C9_UnchangedNoOp ==
    [][ /\ \A s \in CycleSlots :
              (ReadCompletes(s) /\ fileContent.readable
                  /\ fileContent.text = lastContent) =>
                  UNCHANGED <<buffer, lastContent, errorStats, clipboard>>
        /\ (buffer' # buffer \/ lastContent' # lastContent
              \/ errorStats' # errorStats \/ clipboard' # clipboard) =>
              \E s \in CycleSlots :
                 \/ /\ ReadCompletes(s)
                    /\ fileContent.readable
                    /\ fileContent.text # lastContent
                 \/ /\ cycles[s].pc = "clip"
                    /\ cycles[s].content # lastContent
      ]_vars

\* A cycle has just read content equal to a non-empty lastContent.
C9_Witness ==
    /\ lastEvent = "unchanged"
    /\ errorStats # <<>>

\* A step in which a queued trigger (watch event or polling tick) is delivered.
TriggerDelivered ==
    \/ pollDue /\ ~pollDue'
    \/ Len(pendingEvents') < Len(pendingEvents)

\* C10: a trigger delivered while isProcessing is set starts no cycle and
\* leaves the loop's state as it was; a cycle starts only in a step that
\* delivers a trigger while the flag is clear.
C10_DroppedNotQueued ==
    [][ /\ (TriggerDelivered /\ isProcessing) =>
              UNCHANGED <<cycles, isProcessing, buffer, lastContent, errorStats, clipboard>>
        /\ (Running' \ Running # {}) => (TriggerDelivered /\ ~isProcessing)
      ]_vars

\* A trigger has been dropped while a cycle awaits its read or clipboard write.
C10_Witness ==
    /\ lastEvent = "dropped"
    /\ isProcessing
    /\ Running # {}

\* C11: isProcessing is cleared at the end of every cycle on every exit path:
\* it is set exactly while a cycle is running (so it is false whenever none
\* is), and whenever it is set it is eventually cleared.
C11_FlagCleared ==
    /\ [](isProcessing <=> Running # {})
    /\ (isProcessing ~> ~isProcessing)

\* A cycle whose clipboard write threw inside handleError has ended with the
\* flag cleared.
C11_Witness ==
    /\ lastEvent = "handled"
    /\ clipboard.text = <<>>
    /\ Running = {}
    /\ ~isProcessing

\* C12: matching is stateless and idempotent: in every reachable state, with
\* any accepted rule list, a findFirstError scan of the buffer leaves the
\* rules' state as it was, and a second scan returns what the first returned.
C12_StatelessMatching ==
    LET first == findFirstError(buffer, config.errorPatterns, lastIndex)
        second == findFirstError(buffer, config.errorPatterns, first.li)
    IN  /\ first.li = lastIndex
        /\ second.info = first.info

\* sub occurs in text as a contiguous run.
Contains(text, sub) ==
    \E i \in 1..(Len(text) - Len(sub) + 1) : SubSeq(text, i, i + Len(sub) - 1) = sub

\* C13: with a custom template that contains all four placeholders, the
\* prompt formatErrorPrompt returns for a record contains the record's type,
\* severity, timestamp and context verbatim, and no placeholder is left in it.
C13_RoundTrip ==
    \A s \in CycleSlots :
        (/\ cycles[s].pc = "clip"
         /\ \A ph \in Placeholders : Contains(config.customPromptTemplate, <<ph>>)) =>
            LET d == cycles[s].errorData
                out == cycles[s].prompt
            IN  /\ Contains(out, <<d.type>>)
                /\ Contains(out, <<d.severity>>)
                /\ Contains(out, <<d.timestamp>>)
                /\ Contains(out, d.context)
                /\ \A i \in 1..Len(out) : out[i] \notin Placeholders

\* C14 as stated: for every reachable ledger, generateErrorReport().mostFrequent
\* has at most five entries and is sorted strictly descending by count.
C14_StrictlyDescending ==
    LET mf == generateErrorReport.mostFrequent
    IN  /\ Len(mf) <= 5
        /\ \A i, j \in 1..Len(mf) : i < j => mf[i].count > mf[j].count

\* C14, amended: for every reachable ledger, mostFrequent has at most five
\* entries (all of them when the ledger holds five or fewer) and is sorted
\* descending by count with ties allowed: no entry has a smaller count than
\* a later one.
C14_MostFrequentSorted ==
    LET mf == generateErrorReport.mostFrequent
    IN  /\ Len(mf) = Min(5, Len(errorStats))
        /\ \A i, j \in 1..Len(mf) : i < j => mf[i].count >= mf[j].count

\* The ledger holds more than five keys, not in order of count, and two of
\* the reported entries have equal counts.
C14_Witness ==
    LET mf == generateErrorReport.mostFrequent
    IN  /\ Len(errorStats) > 5
        /\ Len(mf) = 5
        /\ \E i, j \in 1..Len(errorStats) :
              i < j /\ errorStats[i].count < errorStats[j].count
        /\ \E i \in 1..4 : mf[i].count = mf[i + 1].count
        /\ \E i \in 1..4 : mf[i].count > mf[i + 1].count

\* C15: every resident ledger entry has count >= 1 and lastSeen >= firstSeen;
\* while a key stays resident its count never decreases and its firstSeen
\* never changes; and recording a resident key again adds one to its count,
\* keeps firstSeen and sets lastSeen to the time of the recording.
C15_EntryMonotone ==
    [][ /\ \A j \in 1..Len(errorStats') :
              /\ errorStats'[j].count >= 1
              /\ errorStats'[j].lastSeen >= errorStats'[j].firstSeen
        /\ \A i \in 1..Len(errorStats), j \in 1..Len(errorStats') :
              errorStats'[j].key = errorStats[i].key =>
                  /\ errorStats'[j].count \in {errorStats[i].count, errorStats[i].count + 1}
                  /\ errorStats'[j].firstSeen = errorStats[i].firstSeen
                  /\ IF errorStats'[j].count = errorStats[i].count
                     THEN errorStats'[j] = errorStats[i]
                     ELSE errorStats'[j].lastSeen = now
      ]_vars

\* A key has been recorded twice, the second time later than the first.
C15_Witness ==
    \E i \in 1..Len(errorStats) :
        /\ errorStats[i].count = 2
        /\ errorStats[i].firstSeen < errorStats[i].lastSeen
        /\ errorStats[i].lastSeen = now

\* C19: when watch mode is configured and fs.watch throws, start() goes on
\* with the polling timer; and once started the monitor has exactly one
\* drive source for log cycles, a watch subscription (only in watch mode) or
\* the polling timer.
C19_OneDriveSource ==
    /\ [](IF clipTimer
          THEN (watcher # polling) /\ (watcher => config.useFileWatcher)
          ELSE ~watcher /\ ~polling)
    /\ [][ (StartWith(FALSE) /\ config.useFileWatcher) =>
              (polling' /\ ~watcher' /\ clipTimer') ]_vars

\* Watch mode was configured, the subscription failed, and a polling tick has
\* started a cycle.
C19_Witness ==
    /\ config.useFileWatcher
    /\ polling /\ ~watcher
    /\ lastEvent = "started"
    /\ isProcessing

(***************************************************************************)
(* Properties of the clipboard monitor loop                                *)
(***************************************************************************)
\* C2: each directive text placed on the clipboard is executed (written or
\* appended to disk) at most once per time it is placed there.
C2_NoDuplicateExecution == \A g \in 1..Len(execs) : execs[g] <= 1

\* C6: every path writeFile writes to lies under the directory of the
\* monitored log.
C6_WritesContained == \A target \in DOMAIN files : Under(target, logDir)

\* A text that begins with the marker and has fewer than three lines.
ShortDirective(text) == startsWith(text, MARK) /\ Len(Lines(text)) < 3

\* C7: processing a marker text of fewer than three lines ends in the
\* invalid-format notification without mkdir, write or append: no callback
\* ever reaches writeFile with such a text, and the step that processes it
\* leaves the file system as it was.
C7_ShortDirectiveRejected ==
    [][ /\ \A s \in TickSlots :
              ticks'[s].pc \in {"mkdir", "write"} => ~ShortDirective(ticks'[s].content)
        /\ \A s \in TickSlots :
              (/\ ticks[s].pc = "read"
               /\ ticks'[s].pc # "read"
               /\ ShortDirective(clipboard.text)
               /\ lastClipboardContent # clipboard.text
               /\ lastClipboardContent' = clipboard.text) =>
                  /\ ticks'[s].pc = "idle"
                  /\ lastNotification' = <<"Error", "Invalid #auto-ai format">>
                  /\ UNCHANGED <<files, dirs, execs, written>>
      ]_vars

\* A two-line directive has been processed and rejected.
C7_Witness ==
    /\ ShortDirective(lastClipboardContent)
    /\ Len(Lines(lastClipboardContent)) = 2
    /\ lastNotification = <<"Error", "Invalid #auto-ai format">>
    /\ \A s \in TickSlots : ticks[s].pc = "idle"

RECURSIVE NonEmpty(_)
\* The pieces that are not empty, in order.
NonEmpty(pieces) ==
    IF pieces = <<>> THEN <<>>
    ELSE IF Head(pieces) = <<>> THEN NonEmpty(Tail(pieces))
    ELSE <<Head(pieces)>> \o NonEmpty(Tail(pieces))

\* The whitespace-separated words of a line.
Words(line) == NonEmpty(split(line, SP))

\* The directive's command token: the second word of its first line, if any.
CommandToken(text) ==
    LET words == Words(Lines(text)[1])
    IN  IF Len(words) >= 2 THEN words[2] ELSE <<>>

\* C16: the first line of a directive is split on whitespace into the marker
\* and an optional command token; the file writer appends exactly when that
\* token is `append', and replaces the file's content otherwise (no token, or
\* any other token).
C16_CommandMode ==
    [][ \A s \in TickSlots :
          LET append == CommandToken(ticks[s].content) = <<"append">>
              target == ticks[s].absolutePath
              old == IF target \in DOMAIN files THEN files[target] ELSE <<>>
          IN  /\ ticks[s].pc \in {"mkdir", "write"} =>
                    (ticks[s].command = <<"append">> <=> append)
              /\ (ticks[s].pc = "write" /\ execs' # execs) =>
                    files'[target] = IF append THEN old \o ticks[s].fileContent
                                     ELSE ticks[s].fileContent
      ]_vars

\* C17: a tick that reads non-empty text which differs from last-seen and
\* does not begin with the marker touches neither the file system nor the
\* notifications and records the text as last-seen; a tick that reads the
\* last-seen text again does nothing.
C17_NonDirectiveIgnored ==
    [][ \A s \in TickSlots :
          /\ (/\ ClipRead(s, TRUE)
                /\ clipboard.text # <<>>
                /\ clipboard.text # lastClipboardContent
                /\ ~startsWith(clipboard.text, MARK)) =>
                  /\ UNCHANGED <<files, dirs, lastNotification, execs, written>>
                  /\ ticks'[s].pc = "idle"
                  /\ lastClipboardContent' = clipboard.text
          /\ (/\ ticks[s].pc = "read"
                /\ ticks'[s].pc # "read"
                /\ clipboard.text = lastClipboardContent) =>
                  /\ UNCHANGED <<files, dirs, lastNotification, execs, written, lastClipboardContent>>
                  /\ ticks'[s].pc = "idle"
      ]_vars

\* A text without the marker has been read and recorded, and a later tick is
\* reading the clipboard again.
C17_Witness ==
    /\ lastClipboardContent # <<>>
    /\ ~startsWith(lastClipboardContent, MARK)
    /\ clipboard.text = lastClipboardContent
    /\ \E s \in TickSlots : ticks[s].pc = "read"
    /\ files = <<>>
    /\ lastNotification = <<"none", "">>

\* The payload of a directive: its lines from the third on, joined by newlines.
Payload(text) == join(SubSeq(Lines(text), 3, Len(Lines(text))), <<NL>>[1])

RECURSIVE Expected(_)
\* The content the claim gives a file after the directives ds, in order.
Expected(ds) ==
    IF ds = <<>> THEN <<>>
    ELSE LET d == ds[Len(ds)]
             earlier == SubSeq(ds, 1, Len(ds) - 1)
         IN  IF CommandToken(d.content) = <<"append">>
             THEN Expected(earlier) \o Payload(d.content)
             ELSE Payload(d.content)

\* C18: after any sequence of successfully processed directives for one
\* path, the file holds the payload of the most recent directive that is not
\* an append (nothing if there is none) followed by the payloads of the
\* later append directives, in order, with nothing in between.
C18_FileContent ==
    /\ DOMAIN files = DOMAIN written
    /\ \A target \in DOMAIN files : files[target] = Expected(written[target])

\* Tick s ends the processing of a directive in this step: the writer's
\* mkdir or write has settled with the callback running to its end, or the
\* directive read is rejected for its format.
DirectiveProcessed(s) ==
    \/ ticks[s].pc \in {"mkdir", "write"} /\ ticks'[s].pc = "idle"
    \/ /\ ClipRead(s, TRUE)
       /\ clipboard.text # lastClipboardContent
       /\ ShortDirective(clipboard.text)

\* C20: every processing of a directive ends with one outcome notification,
\* the success notification if and only if the file writer wrote the file and
\* the failure notification otherwise; no other step of the clipboard loop
\* sends a notification; and after a failure the loop goes on: the text is
\* recorded as seen, the callback has ended and the timer is still running.
C20_OneOutcome ==
    [][ /\ \A s \in TickSlots :
              DirectiveProcessed(s) =>
                  /\ lastNotification'[1] =
                        (IF files' # files \/ written' # written
                         THEN "File Operation Success" ELSE "Error")
                  /\ ticks'[s].pc = "idle"
                  /\ lastClipboardContent' \in {ticks[s].content, clipboard.text}
                  /\ clipTimer'
        /\ lastNotification' # lastNotification =>
              \/ \E s \in TickSlots : DirectiveProcessed(s)
              \/ \E s \in CycleSlots : cycles[s].pc = "clip"
      ]_vars

\* A well-formed directive has failed in the file writer with the failure
\* notification, it is recorded as seen, and a later tick is reading the
\* clipboard.
C20_Witness ==
    /\ lastNotification = <<"Error", "file system">>
    /\ execs = <<0>>
    /\ ~ShortDirective(clipboard.text)
    /\ lastClipboardContent = clipboard.text
    /\ \E s \in TickSlots : ticks[s].pc = "read"

(***************************************************************************)
(* Claims about a whole cycle and about the two loops together             *)
(***************************************************************************)
\* Cycle s handles its match in this step: the awaited clipboard write of
\* handleError has settled and processLogFile runs to its end.
MatchHandled(s) == cycles[s].pc = "clip" /\ cycles'[s].pc = "idle"

\* C21: when a cycle handles a match, the prompt has been written to the
\* clipboard, the notification for the match is emitted, the ledger is
\* updated once for the match and lastContent is set to the content read; and
\* the ledger is never updated unless the prompt of the match that is counted
\* is on the clipboard.
C21_HandlingOrder ==
    [][ /\ \A s \in CycleSlots :
              MatchHandled(s) =>
                  /\ clipboard'.text = cycles[s].prompt
                  /\ lastNotification' = <<"Error Detected", cycles[s].errorInfo.type>>
                  /\ errorStats' = updateErrorStats(errorStats, cycles[s].errorInfo,
                                                    config.maxErrorsPerType, now)
                  /\ lastContent' = cycles[s].content
        /\ errorStats' # errorStats =>
              \E s \in CycleSlots :
                  MatchHandled(s) /\ clipboard'.text = cycles[s].prompt
      ]_vars

\* A callback of the clipboard loop runs in this step: a tick starts, or its
\* clipboard read, mkdir or file write settles.
ClipLoopStep == ticks' # ticks

\* The log loop runs in this step: a trigger is delivered, or a cycle's file
\* read or clipboard write settles.
LogLoopStep ==
    \/ cycles' # cycles
    \/ pollDue /\ ~pollDue'
    \/ Len(pendingEvents') < Len(pendingEvents)

\* C22: no step of the clipboard loop changes the ledger, the buffer,
\* lastContent or isProcessing; no step of the log loop changes
\* lastClipboardContent; and the ledger changes only in a step of a running
\* cycle, with isProcessing set.
C22_NoSharedWrites ==
    [][ /\ ClipLoopStep => UNCHANGED <<errorStats, buffer, lastContent, isProcessing>>
        /\ LogLoopStep => UNCHANGED lastClipboardContent
        /\ errorStats' # errorStats =>
              isProcessing /\ \E s \in CycleSlots : MatchHandled(s)
      ]_vars

\* Both loops are at work on state of their own: a match is in the ledger, a
\* further cycle awaits its clipboard write, and a clipboard callback that has
\* read the directive awaits its file write.
C22_Witness ==
    /\ errorStats # <<>>
    /\ isProcessing
    /\ \E s \in CycleSlots : cycles[s].pc = "clip"
    /\ \E s \in TickSlots : ticks[s].pc = "write"

\* The log holds readable, non-empty text that the monitor has not recorded
\* as last-seen.
Unseen ==
    /\ fileContent.readable
    /\ fileContent.text # <<>>
    /\ lastContent # fileContent.text

\* C23: when the log is written only while the monitor runs and its content
\* stops changing at a readable, non-empty value, lastContent eventually
\* equals that value and stays equal to it, in watch mode and in polling mode.
\* (The log changes finitely often here, so its content always settles.)
C23_FinalContentSeen ==
    [](~clipTimer => fileContent = File(<<>>)) => <>[]~Unseen

====
